---- MODULE Spec2Model ----
(***************************************************************************)
(* A model of sync/commit.py: the commit abstraction, the notes store, the *)
(* commit transplantation engine (Commit.move), the Store scoped artifact  *)
(* and the Gecko / wpt commit classifiers.                                  *)
(*                                                                         *)
(* Texts are sequences of strings: one character each where the code      *)
(* parses the text (messages, notes, tags), so that formatting ("%s: %s",  *)
(* "\n".join) and parsing (splitlines, METADATA_RE) are computed character *)
(* by character; whole words where the code only passes the text on        *)
(* (paths, patches).  Python values that may be None, a str or an int are  *)
(* tagged records [t |-> ..., v |-> ...].                                   *)
(***************************************************************************)
EXTENDS Integers, Sequences, FiniteSets, TLC

VARIABLES
    call,       \* the operation last invoked, with its inputs
    result,     \* how it ended: a returned value or a raised exception
    src,        \* the source repository's commit that is transplanted
    user,       \* the identity configured in the destination repository
    files,      \* the destination working directory: path -> file content
    head,       \* the destination repository's head commit
    log,        \* the steps the last operation performed, in order
    scopes,     \* the Store scopes that are open, innermost last
    exc,        \* the exception propagating out of the open scopes
    notes,      \* the note git holds for the wpt commit: None or its text
    wrappers,   \* the Commit objects wrapping the wpt commit: their _notes
    tags,       \* what git tag --points-at prints for the wpt commit
    lookups,    \* how many times pr_for_commit was called for the wpt commit
    written     \* the keys set in the wpt commit's notes so far: for each its
                \* last-set value and the Commit objects that set it

noteVars == <<notes, wrappers, tags, lookups, written>>

vars == <<call, result, src, user, files, head, log, scopes, exc, noteVars>>

-----------------------------------------------------------------------------
(* Python values *)

NL == "\n"

None == [t |-> "none", v |-> <<>>]

PyStr(s) == [t |-> "str", v |-> s]

\* An int, held as its decimal digits.
PyInt(digits) == [t |-> "int", v |-> digits]

Dict(d) == [t |-> "dict", v |-> d]

\* A callable, by name.
Func(name) == [t |-> "func", v |-> name]

\* The truth value Python gives a value in a condition.
Truthy(x) ==
    CASE x.t = "none" -> FALSE
      [] x.t = "dict" -> DOMAIN x.v # {}
      [] x.t = "str" -> x.v # <<>>
      [] x.t = "int" -> x.v # <<"0">>
      [] OTHER -> TRUE

NoCall == [op |-> "none", n |-> 0]

Return(v) == [kind |-> "return", value |-> v]

Raise(type, message) == [kind |-> "raise", type |-> type, message |-> message]

-----------------------------------------------------------------------------
(* Text helpers *)

Reversed(s) == [i \in 1..Len(s) |-> s[Len(s) + 1 - i]]

EndsWith(s, suffix) ==
    /\ Len(suffix) <= Len(s)
    /\ SubSeq(s, Len(s) - Len(suffix) + 1, Len(s)) = suffix

StartsWith(s, prefix) ==
    /\ Len(prefix) <= Len(s)
    /\ SubSeq(s, 1, Len(prefix)) = prefix

Contains(s, part) ==
    \E i \in 1..(Len(s) + 1) :
        /\ i + Len(part) - 1 <= Len(s)
        /\ SubSeq(s, i, i + Len(part) - 1) = part

RECURSIVE Join(_, _)
Join(sep, parts) ==
    IF parts = <<>> THEN <<>>
    ELSE IF Len(parts) = 1 THEN parts[1]
    ELSE parts[1] \o sep \o Join(sep, Tail(parts))

\* The index of the first occurrence of character c in s, 0 when there is none.
FirstIndex(s, c) ==
    IF \E i \in 1..Len(s) : s[i] = c
    THEN CHOOSE i \in 1..Len(s) : s[i] = c /\ \A j \in 1..(i - 1) : s[j] # c
    ELSE 0

\* str.splitlines(): the lines between line breaks; a final line break opens
\* no further (empty) line.
RECURSIVE splitlines(_)
splitlines(text) ==
    IF text = <<>> THEN <<>>
    ELSE LET i == FirstIndex(text, NL) IN
         IF i = 0 THEN <<text>>
         ELSE <<SubSeq(text, 1, i - 1)>> \o splitlines(SubSeq(text, i + 1, Len(text)))

\* The code points of the characters the model's texts are made of.
CharCode(c) ==
    CASE c = NL -> 10
      [] c = " " -> 32
      [] c = "1" -> 49
      [] c = "2" -> 50
      [] c = "3" -> 51
      [] c = "7" -> 55
      [] c = ":" -> 58
      [] c = "A" -> 65
      [] c = "B" -> 66
      [] c = "X" -> 88
      [] c = "_" -> 95
      [] c = "f" -> 102
      [] c = "y" -> 121
      [] OTHER -> 122

\* Python's order on str: lexicographic by code point.
RECURSIVE StrLess(_, _)
StrLess(a, b) ==
    IF b = <<>> THEN FALSE
    ELSE IF a = <<>> THEN TRUE
    ELSE IF a[1] # b[1] THEN CharCode(a[1]) < CharCode(b[1])
    ELSE StrLess(Tail(a), Tail(b))

\* sorted(keys)
RECURSIVE Sorted(_)
Sorted(S) ==
    IF S = {} THEN <<>>
    ELSE LET m == CHOOSE x \in S : \A y \in S \ {x} : StrLess(x, y)
         IN <<m>> \o Sorted(S \ {m})

\* dict.__setitem__
DictSet(d, key, value) ==
    [k \in DOMAIN d \cup {key} |-> IF k = key THEN value ELSE d[k]]

\* An update in which the values already present win.
DictUpdate_FirstWins(d, e) ==
    [k \in DOMAIN d \cup DOMAIN e |-> IF k \in DOMAIN d THEN d[k] ELSE e[k]]

\* dict.update
DictUpdate(d, e) ==
    [k \in DOMAIN d \cup DOMAIN e |-> IF k \in DOMAIN e THEN e[k] ELSE d[k]]

EmptyDict == [k \in {} |-> <<>>]

\* "%s" % value
Format(value) ==
    CASE value.t = "str" -> value.v
      [] value.t = "none" -> <<"N", "o", "n", "e">>
      [] value.t = "int" -> value.v

-----------------------------------------------------------------------------
(* get_metadata and METADATA_RE *)

\* METADATA_RE.match(line) for "([^\:]*): (.*)": the key is what precedes the
\* first colon, which a space must follow; the value is the rest of the line.
MetadataMatches(line) ==
    LET i == FirstIndex(line, ":") IN
    /\ i # 0
    /\ i + 1 <= Len(line)
    /\ line[i + 1] = " "

MetadataGroups(line) ==
    LET i == FirstIndex(line, ":") IN
    <<SubSeq(line, 1, i - 1), SubSeq(line, i + 2, Len(line))>>

\* The loop of get_metadata over the lines in the order given.
RECURSIVE MetadataLoop(_, _)
MetadataLoop(lines, data) ==
    IF lines = <<>> THEN data
    ELSE LET line == Head(lines) IN
         IF line # <<>> /\ MetadataMatches(line)
         THEN MetadataLoop(Tail(lines),
                           DictSet(data, MetadataGroups(line)[1],
                                   PyStr(MetadataGroups(line)[2])))
         ELSE MetadataLoop(Tail(lines), data)

get_metadata(text) == MetadataLoop(Reversed(splitlines(text)), EmptyDict)

-----------------------------------------------------------------------------
(* Commit.make_commit_msg and Commit.create *)

MetadataLine(metadata, key) == key \o <<":", " ">> \o Format(metadata[key])

\* A format that forgets the line break between the message and the block.
make_commit_msg_NoBreak(msg, metadata) ==
    IF Truthy(metadata)
    THEN LET keys == Sorted(DOMAIN metadata.v)
         IN msg \o Join(<<NL>>, [i \in 1..Len(keys) |-> MetadataLine(metadata.v, keys[i])])
    ELSE msg

make_commit_msg(msg, metadata) ==
    IF Truthy(metadata)
    THEN LET keys == Sorted(DOMAIN metadata.v)
             metadata_str ==
                 Join(<<NL>>, [i \in 1..Len(keys) |-> MetadataLine(metadata.v, keys[i])])
         IN msg \o <<NL>> \o metadata_str
    ELSE msg

\* repo.git.commit(message=msg, **commit_kwargs) on a repository whose head
\* commit is h and whose configured identity is given.  With amend the head
\* commit is replaced and keeps its author; otherwise the new commit's author
\* is the one given, or the configured identity.
GitCommit(h, identity, msg, commit_kwargs) ==
    IF commit_kwargs.amend
    THEN [msg |-> msg, author |-> h.author, depth |-> h.depth]
    ELSE [msg |-> msg,
          author |-> IF commit_kwargs.author.t = "none" THEN identity
                     ELSE commit_kwargs.author.v,
          depth |-> h.depth + 1]

\* Commit.create: the head it leaves and how it ends.  ok says whether the
\* commit subprocess succeeds.
Create(h, identity, msg, metadata, author, amend, ok) ==
    LET full == make_commit_msg(msg, metadata)
        commit_kwargs == IF amend THEN [amend |-> TRUE, author |-> None]
                         ELSE [amend |-> FALSE, author |-> author]
        h2 == GitCommit(h, identity, full, commit_kwargs)
    IN IF ok
       THEN [head |-> h2, result |-> Return([t |-> "commit", v |-> h2]),
             log |-> <<"commit">>]
       ELSE [head |-> h, result |-> Raise("GitCommandError", <<"commit">>),
             log |-> <<"commit">>]

\* Commit.metadata
metadata_of(commit) == get_metadata(commit.msg)

\* Commit.canonical_rev: the hg revision when the repository has cinnabar.
canonical_rev(commit) ==
    IF commit.cinnabar THEN commit.hg ELSE commit.sha1

\* hasattr(obj, name): objects are records of their attributes.
HasAttr(obj, name) == name \in DOMAIN obj

PyBool(b) == [t |-> "bool", v |-> b]

\* An equality that also asks for the same repository handle.
CommitEq_SameRepo(self, other) ==
    IF HasAttr(other, "sha1") THEN self.sha1 = other.sha1 /\ self.repo = other.repo
    ELSE IF HasAttr(other, "hexsha") THEN self.sha1 = other.hexsha
    ELSE other.t = "str" /\ self.sha1 = other.v

\* Commit.__eq__: the other's sha1, or its hexsha, or the other itself is
\* compared with self.sha1 (a str equals only a str).
CommitEq(self, other) ==
    IF HasAttr(other, "sha1") THEN self.sha1 = other.sha1
    ELSE IF HasAttr(other, "hexsha") THEN self.sha1 = other.hexsha
    ELSE other.t = "str" /\ self.sha1 = other.v

\* Commit.__ne__
CommitNe(self, other) == ~CommitEq(self, other)

-----------------------------------------------------------------------------
(* GitNotes *)

\* GitNotes._read: the note's text parsed; no note (git fails) gives {}.
GitNotesRead(note) ==
    IF note.t = "none" THEN EmptyDict ELSE get_metadata(note.v)

\* One more set in the record of the keys set so far.
RecordSet(sets, key, value, w) ==
    [k \in DOMAIN sets \cup {key} |->
        IF k = key
        THEN [value |-> value,
              by |-> (IF key \in DOMAIN sets THEN sets[key].by ELSE {}) \cup {w}]
        ELSE sets[k]]

\* Commit.notes: the GitNotes object, made (and read) at the first access.
CommitNotes(wrapper, note) ==
    IF wrapper._notes.t = "none" THEN Dict(GitNotesRead(note)) ELSE wrapper._notes

\* GitNotes.__getitem__
GitNotesGet(data, key) ==
    IF key \in DOMAIN data THEN Return(data[key]) ELSE Raise("KeyError", key)

\* GitNotes.__contains__
GitNotesContains(data, key) == Return(PyBool(key \in DOMAIN data))

\* The orders in which a dict with these keys may be iterated.
KeyOrders(keys) ==
    {order \in [1..Cardinality(keys) -> keys] : \A k \in keys : \E i \in DOMAIN order : order[i] = k}

\* A __setitem__ that updates the map in memory and writes nothing.
GitNotesSet_NotPersisted(data, key, value, order, note) ==
    [data |-> DictSet(data, key, value), note |-> note, cmd |-> "none"]

\* A __setitem__ that adds the new line to the note with notes append.
GitNotesSet_Appends(data, key, value, order, note) ==
    LET data2 == DictSet(data, key, value) IN
    [data |-> data2,
     note |-> PyStr((IF note.t = "none" THEN <<>> ELSE note.v \o <<NL>>)
                    \o MetadataLine(data2, key)),
     cmd |-> "append"]

\* GitNotes.__setitem__: the map is updated, then written whole with
\* notes add -f (the key is in the map by then, so the append branch is
\* never taken).  order is the dict's iteration order.
GitNotesSet(data, key, value, order, note) ==
    LET data2 == DictSet(data, key, value) IN
    IF key \in DOMAIN data2
    THEN [data |-> data2,
          note |-> PyStr(Join(<<NL>>, [i \in 1..Len(order) |-> MetadataLine(data2, order[i])])),
          cmd |-> "add -f"]
    ELSE [data |-> data2, note |-> note, cmd |-> "append"]

-----------------------------------------------------------------------------
(* Commit.tags and WptCommit.pr *)

\* str.split(sep) for a one-character separator.
RECURSIVE Split(_, _)
Split(text, sep) ==
    LET i == FirstIndex(text, sep) IN
    IF i = 0 THEN <<text>>
    ELSE <<SubSeq(text, 1, i - 1)>> \o Split(SubSeq(text, i + 1, Len(text)), sep)

\* item.strip() is not empty
StripsNonEmpty(item) == \E i \in 1..Len(item) : item[i] \notin {" ", NL}

\* Commit.tags: the non-blank lines of git tag --points-at.
CommitTags(output) ==
    SelectSeq(Split(output, NL), StripsNonEmpty)

MergePrPrefix == <<"m", "e", "r", "g", "e", "_", "p", "r", "_">>

\* item.rsplit("_", 1)[1] of an item that holds a "_"
AfterLastUnderscore(item) ==
    LET i == CHOOSE k \in 1..Len(item) :
                 item[k] = "_" /\ \A j \in (k + 1)..Len(item) : item[j] # "_"
    IN SubSeq(item, i + 1, Len(item))

IsMergePrTag(item) == StartsWith(item, MergePrPrefix)

\* Line 241-242: the PR parts of the merge_pr_ tags.
PrTags(output) ==
    LET merged == SelectSeq(CommitTags(output), IsMergePrTag)
    IN [i \in 1..Len(merged) |-> AfterLastUnderscore(merged[i])]

Digits == {"0", "1", "2", "3", "4", "5", "6", "7", "8", "9"}

\* int(pr) succeeds: no TypeError (None) and no ValueError (not a number).
IntParses(pr) ==
    CASE pr.t = "int" -> TRUE
      [] pr.t = "str" -> pr.v # <<>> /\ \A i \in 1..Len(pr.v) : pr.v[i] \in Digits
      [] OTHER -> FALSE

WptPrKey == <<"w", "p", "t", "_", "p", "r">>

\* WptCommit.pr on a wrapper: remote is what pr_for_commit answers if it is
\* asked, order the iteration order of the notes dict when it is written.
Pr(wrapper, note, tagOutput, remote, order) ==
    LET cached == CommitNotes(wrapper, note).v
        found == PrTags(tagOutput)
        tagged == found # <<>> /\ Len(found) = 1
        pr == IF tagged THEN PyStr(found[1]) ELSE remote
        \* "if not pr: pr == ''" compares and assigns nothing
        set == GitNotesSet(cached, WptPrKey, pr, order, note)
        miss == WptPrKey \notin DOMAIN cached
        data == IF miss THEN set.data ELSE cached
        value == data[WptPrKey]
    IN [wrapper |-> [_notes |-> Dict(data)],
        note |-> IF miss THEN set.note ELSE note,
        lookups |-> IF miss /\ ~tagged THEN 1 ELSE 0,
        result |-> IF IntParses(value) THEN Return(value) ELSE Return(None)]

-----------------------------------------------------------------------------
(* GeckoCommit *)

PySet(S) == [t |-> "set", v |-> S]

\* git show <sha1> --format= --patch: one diff per changed path.  The prefix
\* given to is_empty is not passed on.
ShowPatch(paths) ==
    Join(<<NL>>, [i \in 1..Len(paths) |-> <<"diff ">> \o paths[i]])

\* str.strip() == ""
StripsEmpty(text) == ~StripsNonEmpty(text)

\* Commit.is_empty(prefix)
is_empty(commit, prefix) == StripsEmpty(ShowPatch(commit.paths))

\* env.config["gecko"]["path"]["wpt"]
WptPath == <<"testing", "/", "web-platform", "/", "tests">>

\* GeckoCommit.has_wpt_changes
has_wpt_changes(commit) == ~is_empty(commit, WptPath)

\* The loop of lines 230-234 over the backed-out nodes; repo maps a node to
\* its commit (cinnabar.hg2git, then GeckoCommit).
RECURSIVE BackedOutLoop(_, _, _)
BackedOutLoop(nodes, repo, commits) ==
    IF nodes = <<>> THEN commits
    ELSE LET commit == repo[Head(nodes)] IN
         BackedOutLoop(Tail(nodes), repo,
                       IF has_wpt_changes(commit) THEN Append(commits, commit.sha1)
                       ELSE commits)

\* set(bugs): a TypeError when bugs is None.
SetOf(bugs) ==
    IF bugs.t = "none" THEN Raise("TypeError", <<"'NoneType' object is not iterable">>)
    ELSE Return(PySet({bugs.v[i] : i \in 1..Len(bugs.v)}))

\* GeckoCommit.wpt_commits_backed_out.  parsed is what commitparser makes of
\* the message: is_backout, and parse_backouts' (nodes, bugs) or None.
wpt_commits_backed_out(parsed, repo) ==
    LET commits0 == <<>>
        bugs0 == None
    IN IF parsed.is_backout /\ parsed.backouts.t = "none"
       THEN Return([commits |-> commits0, bugs |-> bugs0])
       ELSE LET commits == IF parsed.is_backout
                           THEN BackedOutLoop(parsed.backouts.nodes, repo, commits0)
                           ELSE commits0
                bugs == IF parsed.is_backout
                        THEN [t |-> "list", v |-> parsed.backouts.bugs]
                        ELSE bugs0
            IN IF SetOf(bugs).kind = "raise" THEN SetOf(bugs)
               ELSE Return([commits |-> commits, bugs |-> SetOf(bugs).value])

-----------------------------------------------------------------------------
(* Store *)

NoExc == "none"

NoFiles == [p \in {} |-> <<>>]

\* The destination repository's working_dir.
WorkingDir == <<"/", "dest">>

\* Store.__init__: os.path.join(repo.working_dir, name)
StorePath(working_dir, name) == working_dir \o <<"/">> \o name

\* data.encode("utf8"): one byte per ASCII character, two for e-acute.
RECURSIVE Utf8Encode(_)
Utf8Encode(data) ==
    IF data = <<>> THEN <<>>
    ELSE (IF Head(data) = "e'" THEN <<"\\xc3", "\\xa9">> ELSE <<Head(data)>>)
         \o Utf8Encode(Tail(data))

\* Store.__enter__: open(path, "w") and write the encoded data.
StoreEnter(fs, path, data) ==
    [p \in DOMAIN fs \cup {path} |-> IF p = path THEN Utf8Encode(data) ELSE fs[p]]

\* A __exit__ that unlinks the file however the body ended.
StoreExit_AlwaysUnlink(fs, path, type) ==
    [files |-> [p \in DOMAIN fs \ {path} |-> fs[p]], raises |-> NoExc, suppress |-> FALSE]

\* Store.__exit__(type, value, traceback): unlink the file when no exception
\* ended the body.  It returns None, so it suppresses nothing; os.unlink of
\* a missing file raises OSError.
StoreExit(fs, path, type) ==
    IF type = NoExc
    THEN IF path \in DOMAIN fs
         THEN [files |-> [p \in DOMAIN fs \ {path} |-> fs[p]],
               raises |-> NoExc, suppress |-> FALSE]
         ELSE [files |-> fs, raises |-> "OSError", suppress |-> FALSE]
    ELSE [files |-> fs, raises |-> NoExc, suppress |-> FALSE]

\* A scope end that leaves the file where it is, however the body ended.
ExitScope_KeepsFile(out, path, event) == out

\* The end of a "with Store(...)" block inside move: out is how the body
\* ended.  A suppressed exception would let move run off its end and return
\* None.
ExitScope(out, path, event) ==
    LET type == IF out.result.kind = "raise" THEN out.result.type ELSE NoExc
        r == StoreExit(out.files, path, type)
    IN [out EXCEPT
           !.files = r.files,
           !.log = IF path \in DOMAIN out.files /\ path \notin DOMAIN r.files
                   THEN out.log \o <<event>> ELSE out.log,
           !.result = IF r.raises # NoExc THEN Raise(r.raises, <<"unlink">>)
                      ELSE IF type # NoExc /\ r.suppress THEN Return(None)
                      ELSE out.result]

-----------------------------------------------------------------------------
(* Commit.move *)

\* msg_filter(self.msg): the caller's transform.  "first_line" keeps the
\* first line and asks for the metadata A: 3; "same" changes nothing and
\* gives an empty map.
ApplyFilter(name, msg) ==
    IF name = "first_line"
    THEN <<IF splitlines(msg) = <<>> THEN <<>> ELSE splitlines(msg)[1],
           Dict([k \in {<<"A">>} |-> PyStr(<<"3">>)])>>
    ELSE <<msg, Dict(EmptyDict)>>

\* len(src_prefix.split("/"))
SplitCount(s) == Cardinality({i \in 1..Len(s) : s[i] = "/"}) + 1

\* A strip count that forgets the a/ and b/ component of the diff paths.
StripDirs_SegmentsOnly(src_prefix) ==
    IF Truthy(src_prefix) THEN SplitCount(src_prefix.v) ELSE 1

\* Line 169
StripDirs(src_prefix) ==
    IF Truthy(src_prefix) THEN SplitCount(src_prefix.v) + 1 ELSE 1

\* An error message that leaves out where the commit message was saved.
ApplyErrMsg_NoMessagePath(patch_path, message_path) ==
    <<"git apply failed", NL>> \o <<"git apply">> \o <<" returned status ">> \o <<"1">>
    \o <<NL, "Patch saved as :">> \o patch_path
    \o <<NL>> \o <<"stderr">>

\* The message of the AbortError raised when apply fails.
ApplyErrMsg(patch_path, message_path) ==
    <<"git apply failed", NL>> \o <<"git apply">> \o <<" returned status ">> \o <<"1">>
    \o <<NL, "Patch saved as :">> \o patch_path
    \o <<NL, "Commit message saved as: ">> \o message_path
    \o <<NL>> \o <<"stderr">>

\* An apply failure that escapes as the GitCommandError it was.
ApplyFailure_Unwrapped(patch_path, message_path) ==
    Raise("GitCommandError", <<"apply">>)

\* Lines 185-191: a failed apply is raised as an AbortError.
ApplyFailure(patch_path, message_path) ==
    Raise("AbortError", ApplyErrMsg(patch_path, message_path))

\* Lines 163-164: a failed show is raised as an AbortError with e.message.
ShowFailure == Raise("AbortError", <<"show failed">>)

\* An empty-skip test that asks for one line break too many.
SkipsEmpty_FourBreaks(skip_empty, patch) ==
    skip_empty /\ EndsWith(patch, <<NL, NL, NL, NL>>)

\* Line 166: the empty-skip test on the patch text.
SkipsEmpty(skip_empty, patch) == skip_empty /\ EndsWith(patch, <<NL, NL, NL>>)

\* Lines 171-193: the block under the .diff Store.  ext.fail names the
\* repository step that fails in this run ("none": every step succeeds).
MoveDiffScope(self, fs, h, identity, msg, patch, message_path, strip_dirs, dest_prefix, amend, three_way, ext) ==
    LET patch_path == StorePath(WorkingDir, canonical_rev(self) \o <<".diff">>)
        fs2 == StoreEnter(fs, patch_path, patch)
        apply_kwargs == [directory |-> IF Truthy(dest_prefix) THEN dest_prefix ELSE None,
                         threeway |-> three_way,
                         reject |-> ~three_way]
        apply_args == [t |-> "apply", path |-> patch_path, index |-> TRUE,
                       binary |-> TRUE, p |-> strip_dirs, kwargs |-> apply_kwargs]
        c == Create(h, identity, msg, None, None, amend, ext.fail # "commit")
        body ==
            IF ext.fail = "update_index"
            THEN [files |-> fs2, head |-> h, apply_args |-> None,
                  result |-> Raise("GitCommandError", <<"update_index">>),
                  log |-> <<"diff_written", "update_index">>]
            ELSE IF ext.fail = "apply"
            THEN [files |-> fs2, head |-> h, apply_args |-> apply_args,
                  result |-> ApplyFailure(patch_path, message_path),
                  log |-> <<"diff_written", "update_index", "apply">>]
            ELSE [files |-> fs2, head |-> c.head, apply_args |-> apply_args,
                  result |-> c.result,
                  log |-> <<"diff_written", "update_index", "apply">> \o c.log]
    IN ExitScope(body, patch_path, "diff_deleted")

\* Lines 156-193: the block under the .message Store.  ext.output is what
\* git show prints when it succeeds.
MoveMessageScope(self, fs, h, identity, msg, skip_empty, src_prefix, dest_prefix, amend, three_way, ext) ==
    LET message_path == StorePath(WorkingDir, canonical_rev(self) \o <<".message">>)
        fs1 == StoreEnter(fs, message_path, msg)
        patch == ext.output \o <<NL>>
        strip_dirs == StripDirs(src_prefix)
        inner == MoveDiffScope(self, fs1, h, identity, msg, patch, message_path,
                               strip_dirs, dest_prefix, amend, three_way, ext)
        body ==
            IF ext.fail = "show"
            THEN [files |-> fs1, head |-> h, apply_args |-> None,
                  result |-> ShowFailure,
                  log |-> <<"message_written", "show">>]
            ELSE IF SkipsEmpty(skip_empty, patch)
            THEN [files |-> fs1, head |-> h, apply_args |-> None,
                  result |-> Return(None),
                  log |-> <<"message_written", "show">>]
            ELSE [inner EXCEPT !.log = <<"message_written", "show">> \o inner.log]
    IN ExitScope(body, message_path, "message_deleted")

\* A move that has committed by the time it raises its AbortError.
Move_CommitsOnAbort(self, fs, h, identity, skip_empty, msg_filter, metadata, src_prefix, dest_prefix, amend, three_way, ext) ==
    LET metadata0 == IF metadata.t = "none" THEN Dict(EmptyDict) ELSE metadata
        filtered == IF Truthy(msg_filter) THEN ApplyFilter(msg_filter.v, self.msg)
                    ELSE <<self.msg, None>>
        metadata1 == IF Truthy(filtered[2])
                     THEN Dict(DictUpdate(metadata0.v, filtered[2].v))
                     ELSE metadata0
        msg == make_commit_msg(filtered[1], metadata1)
        out == MoveMessageScope(self, fs, h, identity, msg, skip_empty, src_prefix,
                                dest_prefix, amend, three_way, ext)
    IN IF out.result.kind = "raise" /\ out.result.type = "AbortError"
       THEN [out EXCEPT !.head = GitCommit(h, identity, msg, [amend |-> amend, author |-> None])]
       ELSE out

\* Commit.move
Move(self, fs, h, identity, skip_empty, msg_filter, metadata, src_prefix, dest_prefix, amend, three_way, ext) ==
    LET metadata0 == IF metadata.t = "none" THEN Dict(EmptyDict) ELSE metadata
        filtered == IF Truthy(msg_filter) THEN ApplyFilter(msg_filter.v, self.msg)
                    ELSE <<self.msg, None>>
        metadata1 == IF Truthy(filtered[2])
                     THEN Dict(DictUpdate(metadata0.v, filtered[2].v))
                     ELSE metadata0
        msg == make_commit_msg(filtered[1], metadata1)
    IN MoveMessageScope(self, fs, h, identity, msg, skip_empty, src_prefix,
                        dest_prefix, amend, three_way, ext)

-----------------------------------------------------------------------------
(* The transplantation of a source commit, called again and again *)

\* How many operations one behaviour performs.
MaxCalls == 1

Authors == {"alice", "bob"}

SrcCommits ==
    { [sha1 |-> <<"s1">>, hg |-> <<"s1">>, cinnabar |-> FALSE,
       msg |-> <<"f">>, author |-> "alice"],
      [sha1 |-> <<"s2">>, hg |-> <<"hg2">>, cinnabar |-> TRUE,
       msg |-> <<"f", NL, "A", ":", " ", "1">>, author |-> "bob"] }

InitialHead == [msg |-> <<"i">>, author |-> "carol", depth |-> 0]

\* What git show may print: a header with no diff after it (two line breaks
\* end it), or a header followed by a diff.
ShowOutputs == { <<"header", NL, NL>>, <<"header", NL, NL, "diff">> }

\* What the repository does in one run: the step that fails, if any, and
\* what show prints.  The index refresh and the commit are only reached
\* with a patch that holds a diff or with skip_empty off; they fail here
\* after a diff.
Exts ==
    {[fail |-> "show", output |-> <<>>]}
    \cup {[fail |-> f, output |-> o] : f \in {"none", "apply"}, o \in ShowOutputs}
    \cup {[fail |-> f, output |-> <<"header", NL, NL, "diff">>] : f \in {"update_index", "commit"}}

Filters == {None, Func("first_line")}

Metadatas ==
    {None, Dict([k \in {<<"A">>, <<"X">>} |->
                    IF k = <<"A">> THEN PyStr(<<"1">>) ELSE PyStr(<<"y">>)])}

\* src_prefix, dest_prefix and three_way as the callers combine them.
ApplyOptions ==
    { [src_prefix |-> None, dest_prefix |-> None, three_way |-> TRUE],
      [src_prefix |-> PyStr(<<"a", "/", "b">>), dest_prefix |-> PyStr(<<"t">>),
       three_way |-> TRUE],
      [src_prefix |-> PyStr(<<"a">>), dest_prefix |-> None, three_way |-> FALSE],
      [src_prefix |-> PyStr(<<>>), dest_prefix |-> PyStr(<<>>), three_way |-> FALSE] }

NoResult == [kind |-> "none"]

Wrappers == {"w1", "w2"}

\* No note, no tag, and Commit objects that have not read their notes yet.
NotesAtRest ==
    /\ notes = None
    /\ wrappers = [w \in Wrappers |-> [_notes |-> None]]
    /\ tags = <<>>
    /\ lookups = 0
    /\ written = EmptyDict

Init ==
    /\ call = NoCall
    /\ result = NoResult
    /\ src \in SrcCommits
    /\ user \in Authors
    /\ files = NoFiles
    /\ head = InitialHead
    /\ log = <<>>
    /\ scopes = <<>>
    /\ exc = NoExc
    /\ NotesAtRest

MoveCall ==
    /\ call.n < MaxCalls
    /\ \E skip_empty \in BOOLEAN, msg_filter \in Filters, metadata \in Metadatas,
          opt \in ApplyOptions, amend \in BOOLEAN, ext \in Exts :
        \E out \in {Move(src, files, head, user, skip_empty, msg_filter, metadata,
                        opt.src_prefix, opt.dest_prefix, amend, opt.three_way, ext)} :
           /\ call' = [op |-> "move", n |-> call.n + 1, self |-> src,
                        skip_empty |-> skip_empty,
                        msg_filter |-> msg_filter, metadata |-> metadata,
                        src_prefix |-> opt.src_prefix, dest_prefix |-> opt.dest_prefix,
                        amend |-> amend, three_way |-> opt.three_way, ext |-> ext,
                        apply_args |-> out.apply_args]
           /\ result' = out.result
           /\ files' = out.files
           /\ head' = out.head
           /\ log' = out.log
    /\ UNCHANGED <<src, user, scopes, exc, noteVars>>

Next == MoveCall

Spec == Init /\ [][Next]_vars

-----------------------------------------------------------------------------
(* get_metadata applied to a text *)

MaxLines == 3

MetaLines ==
    { <<"A", ":", " ", "1">>, <<"B", ":", " ", "2">>, <<"A", ":", " ", "3">>,
      <<"f">>, <<>> }

TextsOf(pool, n) ==
    {Join(<<NL>>, ls) : ls \in UNION {[1..k -> pool] : k \in 0..n}}

NoSrc == [sha1 |-> <<>>, hg |-> <<>>, cinnabar |-> FALSE, msg |-> <<>>, author |-> "nobody"]

\* The repositories and the scopes, at rest.
AtRest ==
    /\ NotesAtRest
    /\ src = NoSrc
    /\ files = NoFiles
    /\ head = InitialHead
    /\ log = <<>>
    /\ scopes = <<>>
    /\ exc = NoExc

InitMetadata ==
    /\ call \in {[op |-> "get_metadata", n |-> 0, text |-> t] : t \in TextsOf(MetaLines, MaxLines)}
    /\ result = NoResult
    /\ user = "alice"
    /\ AtRest

GetMetadataCall ==
    /\ call.op = "get_metadata"
    /\ result = NoResult
    /\ result' = Return(Dict(get_metadata(call.text)))
    /\ UNCHANGED <<call, src, user, files, head, log, scopes, exc, noteVars>>

NextMetadata == GetMetadataCall

SpecMetadata == InitMetadata /\ [][NextMetadata]_vars

-----------------------------------------------------------------------------
(* Commit.create called on the destination repository *)

CreateLines == { <<"f">>, <<"A", ":", " ", "1">>, <<"B", ":", " ", "2">> }

CreateMsgs ==
    {Join(<<NL>>, ls) : ls \in UNION {[1..k -> CreateLines] : k \in {0, 1, 2}}}

CreateMetadatas ==
    { None, Dict(EmptyDict),
      Dict([k \in {<<"X">>} |-> PyStr(<<"y">>)]),
      Dict([k \in {<<"A">>} |-> PyStr(<<"3">>)]),
      Dict([k \in {<<"A">>, <<"X">>} |->
               IF k = <<"A">> THEN PyStr(<<"3">>) ELSE PyStr(<<"y">>)]) }

InitCreate ==
    /\ call = NoCall
    /\ result = NoResult
    /\ user \in Authors
    /\ AtRest

CreateCall ==
    /\ call.n < MaxCalls
    /\ \E msg \in CreateMsgs, metadata \in CreateMetadatas,
          author \in {None, [t |-> "actor", v |-> "bob"]},
          amend \in BOOLEAN, ok \in BOOLEAN :
        \E out \in {Create(head, user, msg, metadata, author, amend, ok)} :
           /\ call' = [op |-> "create", n |-> call.n + 1, msg |-> msg,
                        metadata |-> metadata, author |-> author, amend |-> amend,
                        ok |-> ok]
           /\ result' = out.result
           /\ head' = out.head
           /\ log' = out.log
    /\ UNCHANGED <<src, user, files, scopes, exc, noteVars>>

NextCreate == CreateCall

SpecCreate == InitCreate /\ [][NextCreate]_vars

-----------------------------------------------------------------------------
(* Store scopes opened and closed *)

MaxNesting == 2

StoreNames == { <<"s1", ".message">>, <<"s1", ".diff">>, <<"hg2", ".diff">> }

StoreDatas == { <<"f">>, <<"e'">> }

Exceptions == {"AbortError", "GitCommandError", "KeyboardInterrupt"}

InitStore ==
    /\ call = NoCall
    /\ result = NoResult
    /\ user = "alice"
    /\ AtRest

\* "with Store(repo, name, data) as path:" is entered while the enclosing
\* code runs normally.
StoreEnterStep ==
    /\ exc = NoExc
    /\ Len(scopes) < MaxNesting
    /\ \E name \in StoreNames, data \in StoreDatas :
        LET path == StorePath(WorkingDir, name) IN
        /\ \A i \in 1..Len(scopes) : scopes[i].path # path
        /\ files' = StoreEnter(files, path, data)
        /\ scopes' = Append(scopes, [path |-> path, data |-> data])
        /\ call' = [op |-> "enter", n |-> 0, path |-> path, data |-> data]
        /\ result' = Return(PyStr(path))
    /\ UNCHANGED <<src, user, head, log, exc, noteVars>>

\* The body of the innermost scope ends, normally or with an exception (the
\* one already propagating, if an inner scope let one out), and __exit__
\* runs.  What leaves the outermost scope reaches the caller.
StoreExitStep ==
    /\ scopes # <<>>
    /\ \E type \in (IF exc = NoExc THEN {NoExc} \cup Exceptions ELSE {exc}) :
        LET top == scopes[Len(scopes)] IN
        \E r \in {StoreExit(files, top.path, type)} :
        LET after == IF r.raises # NoExc THEN r.raises
                     ELSE IF r.suppress THEN NoExc
                     ELSE type
        IN /\ files' = r.files
           /\ scopes' = SubSeq(scopes, 1, Len(scopes) - 1)
           /\ call' = [op |-> "exit", n |-> 0, path |-> top.path, data |-> top.data,
                        type |-> type]
           /\ IF Len(scopes) = 1
              THEN /\ exc' = NoExc
                   /\ result' = IF after = NoExc THEN Return(None)
                                 ELSE Raise(after, <<>>)
              ELSE /\ exc' = after
                   /\ result' = NoResult
    /\ UNCHANGED <<src, user, head, log, noteVars>>

NextStore == StoreEnterStep \/ StoreExitStep

SpecStore == InitStore /\ [][NextStore]_vars

-----------------------------------------------------------------------------
(* pr() called on the Commit objects of one wpt commit *)

TagOutputs ==
    { <<>>,
      <<"v", "1">>,
      MergePrPrefix \o <<"7">>,
      MergePrPrefix \o <<"7", NL>> \o MergePrPrefix \o <<"8">>,
      MergePrPrefix \o <<"7", NL, "v", "1">> }

InitialNotes ==
    { None,
      PyStr(WptPrKey \o <<":", " ", "9">>),
      PyStr(<<"A", ":", " ", "1">>) }

Remotes == {None, PyInt(<<"7">>)}

InitPr ==
    /\ call = NoCall
    /\ result = NoResult
    /\ user = "alice"
    /\ src = NoSrc
    /\ files = NoFiles
    /\ head = InitialHead
    /\ log = <<>>
    /\ scopes = <<>>
    /\ exc = NoExc
    /\ notes \in InitialNotes
    /\ wrappers = [w \in Wrappers |-> [_notes |-> None]]
    /\ tags \in TagOutputs
    /\ lookups = 0
    /\ written = EmptyDict

PrCall ==
    /\ \E w \in Wrappers, remote \in Remotes :
        \E order \in KeyOrders(DOMAIN CommitNotes(wrappers[w], notes).v \cup {WptPrKey}) :
        \E out \in {Pr(wrappers[w], notes, tags, remote, order)} :
           /\ call' = [op |-> "pr", n |-> 0, w |-> w, remote |-> remote]
           /\ result' = out.result
           /\ wrappers' = [wrappers EXCEPT ![w] = out.wrapper]
           /\ notes' = out.note
           /\ lookups' = lookups + out.lookups
           /\ written' = IF WptPrKey \in DOMAIN CommitNotes(wrappers[w], notes).v
                          THEN written
                          ELSE RecordSet(written, WptPrKey, out.wrapper._notes.v[WptPrKey], w)
    /\ UNCHANGED <<src, user, files, head, log, scopes, exc, tags>>

NextPr == PrCall

SpecPr == InitPr /\ [][NextPr]_vars

-----------------------------------------------------------------------------
(* The notes of one wpt commit read and set through its Commit objects *)

\* How many reads and sets one behaviour performs.
MaxOps == 3

NoteKeys == { <<"A">>, <<"B">> }

NoteValues == { PyStr(<<"1">>), PyStr(<<"2">>), None, PyInt(<<"7">>) }

InitNotes ==
    /\ call = NoCall
    /\ result = NoResult
    /\ user = "alice"
    /\ src = NoSrc
    /\ files = NoFiles
    /\ head = InitialHead
    /\ log = <<>>
    /\ scopes = <<>>
    /\ exc = NoExc
    /\ notes \in InitialNotes
    /\ wrappers = [w \in Wrappers |-> [_notes |-> None]]
    /\ tags = <<>>
    /\ lookups = 0
    /\ written = EmptyDict

\* commit.notes[key]
NotesGetCall ==
    /\ call.n < MaxOps
    /\ \E w \in Wrappers, key \in NoteKeys :
        \E data \in {CommitNotes(wrappers[w], notes)} :
           /\ call' = [op |-> "get", n |-> call.n + 1, w |-> w, key |-> key]
           /\ wrappers' = [wrappers EXCEPT ![w] = [_notes |-> data]]
           /\ result' = GitNotesGet(data.v, key)
    /\ UNCHANGED <<src, user, files, head, log, scopes, exc, notes, tags, lookups, written>>

\* key in commit.notes
NotesContainsCall ==
    /\ call.n < MaxOps
    /\ \E w \in Wrappers, key \in NoteKeys :
        \E data \in {CommitNotes(wrappers[w], notes)} :
           /\ call' = [op |-> "contains", n |-> call.n + 1, w |-> w, key |-> key]
           /\ wrappers' = [wrappers EXCEPT ![w] = [_notes |-> data]]
           /\ result' = GitNotesContains(data.v, key)
    /\ UNCHANGED <<src, user, files, head, log, scopes, exc, notes, tags, lookups, written>>

\* commit.notes[key] = value
NotesSetCall ==
    /\ call.n < MaxOps
    /\ \E w \in Wrappers, key \in NoteKeys, value \in NoteValues :
        \E data \in {CommitNotes(wrappers[w], notes)} :
        \E order \in KeyOrders(DOMAIN data.v \cup {key}) :
        \E out \in {GitNotesSet(data.v, key, value, order, notes)} :
           /\ call' = [op |-> "set", n |-> call.n + 1, w |-> w, key |-> key, value |-> value,
                        cmd |-> out.cmd]
           /\ wrappers' = [wrappers EXCEPT ![w] = [_notes |-> Dict(out.data)]]
           /\ notes' = out.note
           /\ result' = Return(None)
           /\ written' = RecordSet(written, key, value, w)
    /\ UNCHANGED <<src, user, files, head, log, scopes, exc, tags, lookups>>

NextNotes == NotesGetCall \/ NotesContainsCall \/ NotesSetCall

SpecNotes == InitNotes /\ [][NextNotes]_vars

-----------------------------------------------------------------------------
(* wpt_commits_backed_out called on Gecko commits *)

MaxNodes == 2

Nodes == {"n1", "n2", "n3"}

\* The Gecko repository: a commit that changes a wpt test, one that changes
\* only other files, and one that changes nothing.
GeckoRepo ==
    [n \in Nodes |->
        CASE n = "n1" -> [sha1 |-> "g1", paths |-> << WptPath \o <<"/", "a.html">> >>]
          [] n = "n2" -> [sha1 |-> "g2", paths |-> << <<"dom", "/", "b.cpp">> >>]
          [] OTHER -> [sha1 |-> "g3", paths |-> <<>>]]

BugLists == { <<>>, <<"1">>, <<"1", "2">>, <<"1", "1">> }

\* What commitparser may make of a message.
Parsings ==
    {[is_backout |-> b, backouts |-> None] : b \in BOOLEAN}
    \cup {[is_backout |-> b,
           backouts |-> [t |-> "pair", nodes |-> nodes, bugs |-> bugs]] :
             b \in BOOLEAN,
             nodes \in UNION {[1..k -> Nodes] : k \in 0..MaxNodes},
             bugs \in BugLists}

InitBackout ==
    /\ call = NoCall
    /\ result = NoResult
    /\ user = "alice"
    /\ AtRest

BackedOutCall ==
    /\ \E parsed \in Parsings :
        /\ call' = [op |-> "wpt_commits_backed_out", n |-> 0, parsed |-> parsed]
        /\ result' = wpt_commits_backed_out(parsed, GeckoRepo)
    /\ UNCHANGED <<src, user, files, head, log, scopes, exc, noteVars>>

NextBackout == BackedOutCall

SpecBackout == InitBackout /\ [][NextBackout]_vars

-----------------------------------------------------------------------------
(* Commit objects compared with == and != *)

Sha1s == { <<"s1">>, <<"s2">> }

\* Commit objects: the wrapper classes, over two repository handles.
CommitObjects ==
    {[cls |-> c, repo |-> r, sha1 |-> s] :
        c \in {"Commit", "GeckoCommit", "WptCommit"}, r \in {"gecko", "wpt"}, s \in Sha1s}

\* git.Commit objects
NativeCommits == {[cls |-> "git.Commit", hexsha |-> s] : s \in Sha1s}

\* What a Commit is compared with: a Commit, a git.Commit, a revision
\* string (a full identifier, or a name such as HEAD), or None.
Comparands ==
    CommitObjects \cup NativeCommits
    \cup {PyStr(s) : s \in Sha1s \cup {<<"HEAD">>}} \cup {None}

InitEq ==
    /\ call = NoCall
    /\ result = NoResult
    /\ user = "alice"
    /\ AtRest

EqCall ==
    /\ \E self \in CommitObjects, other \in Comparands :
        /\ call' = [op |-> "__eq__", n |-> 0, self |-> self, other |-> other]
        /\ result' = Return(PyBool(CommitEq(self, other)))
    /\ UNCHANGED <<src, user, files, head, log, scopes, exc, noteVars>>

NeCall ==
    /\ \E self \in CommitObjects, other \in Comparands :
        /\ call' = [op |-> "__ne__", n |-> 0, self |-> self, other |-> other]
        /\ result' = Return(PyBool(CommitNe(self, other)))
    /\ UNCHANGED <<src, user, files, head, log, scopes, exc, noteVars>>

NextEq == EqCall \/ NeCall

SpecEq == InitEq /\ [][NextEq]_vars

-----------------------------------------------------------------------------
(* Properties of move *)

MessagePathOf(commit) == WorkingDir \o <<"/">> \o canonical_rev(commit) \o <<".message">>

DiffPathOf(commit) == WorkingDir \o <<"/">> \o canonical_rev(commit) \o <<".diff">>

Logged(step) == \E i \in 1..Len(log) : log[i] = step

\* The repository step that failed in the last move, if one did.
StepFailed(step) == call.op = "move" /\ call.ext.fail = step /\ Logged(step)

\* The last move was given skip_empty and a patch that ends in two blank lines.
EmptySkipCase(c) ==
    /\ c.op = "move"
    /\ c.skip_empty
    /\ c.ext.fail # "show"
    /\ EndsWith(c.ext.output \o <<NL>>, <<NL, NL, NL>>)

\* C1: when the apply step of move fails, move raises an AbortError whose
\* message contains the path of the .diff file and the path of the .message
\* file, and both files exist in the destination working directory afterwards.
C1_ApplyFailureLeavesArtifacts ==
    StepFailed("apply") =>
        /\ result.kind = "raise"
        /\ result.type = "AbortError"
        /\ Contains(result.message, DiffPathOf(call.self))
        /\ Contains(result.message, MessagePathOf(call.self))
        /\ DiffPathOf(call.self) \in DOMAIN files
        /\ MessagePathOf(call.self) \in DOMAIN files

C1_Witness ==
    /\ StepFailed("apply")
    /\ result.kind = "raise"
    /\ {DiffPathOf(call.self), MessagePathOf(call.self)} \subseteq DOMAIN files

\* C3: a move with skip_empty whose extracted patch is empty returns None and
\* leaves the destination head as it was; it performs no index refresh, no
\* apply and no commit.
C3_EmptySkipIsNoOp ==
    [][EmptySkipCase(call') =>
          /\ result' = Return(None)
          /\ head' = head
          /\ \A i \in 1..Len(log') : log'[i] \notin {"update_index", "apply", "commit"}]_vars

C3_Witness ==
    /\ EmptySkipCase(call)
    /\ result = Return(None)
    /\ head = InitialHead

\* C4: the commit a successful non-amend move creates has the author of the
\* source commit.
C4_AuthorPreserved ==
    (/\ call.op = "move"
     /\ ~call.amend
     /\ result.kind = "return"
     /\ result.value.t = "commit")
    => result.value.v.author = call.self.author

\* C5 as claimed: every failed repository step of move (show, index refresh,
\* apply, commit) reaches the caller as an AbortError.
C5_EveryFailureIsAbortError ==
    \A step \in {"show", "update_index", "apply", "commit"} :
        StepFailed(step) => result.kind = "raise" /\ result.type = "AbortError"

\* C5 amended: a failed show or apply reaches the caller as an AbortError; a
\* failed index refresh or commit escapes move as the GitCommandError of the
\* repository layer.
C5_FailureTypes ==
    /\ \A step \in {"show", "apply"} :
          StepFailed(step) => result.kind = "raise" /\ result.type = "AbortError"
    /\ \A step \in {"update_index", "commit"} :
          StepFailed(step) => result.kind = "raise" /\ result.type = "GitCommandError"

C5_Witness ==
    /\ StepFailed("commit")
    /\ result.kind = "raise"
    /\ result.type = "GitCommandError"

\* The last move reached the apply step, with these arguments.
Applied == call.op = "move" /\ call.apply_args.t = "apply"

\* C12: the strip count passed to apply as p is the number of "/"-separated
\* segments of src_prefix plus one when src_prefix is given, and 1 when it is
\* None or empty; for src_prefix a/b it is 3.
C12_StripCount ==
    Applied =>
        /\ call.apply_args.p =
              IF call.src_prefix.t = "none" \/ call.src_prefix.v = <<>> THEN 1
              ELSE Len(Split(call.src_prefix.v, "/")) + 1
        /\ call.src_prefix = PyStr(<<"a", "/", "b">>) => call.apply_args.p = 3

C12_Witness ==
    /\ Applied
    /\ call.src_prefix = PyStr(<<"a", "/", "b">>)
    /\ call.apply_args.p = 3
    /\ Logged("apply")

MoveSteps ==
    <<"message_written", "show", "diff_written", "update_index", "apply", "commit">>

IsMoveStep(event) == \E i \in 1..Len(MoveSteps) : MoveSteps[i] = event

StepsOf(events) == SelectSeq(events, IsMoveStep)

IsPrefix(a, b) == Len(a) <= Len(b) /\ SubSeq(b, 1, Len(a)) = a

\* C14: in every run of move the destination-side steps happen in the order
\* .message written, patch extracted, .diff written, index refreshed, patch
\* applied, commit created (a run performs an initial part of them); the
\* commit step is reached only after an apply that succeeded, and a move that
\* raises AbortError has not reached the commit step and leaves the
\* destination head as it was.
C14_StepOrder ==
    [][call'.op = "move" =>
          /\ IsPrefix(StepsOf(log'), MoveSteps)
          /\ (\E i \in 1..Len(log') : log'[i] = "commit") =>
                call'.ext.fail \notin {"show", "update_index", "apply"}
          /\ (result'.kind = "raise" /\ result'.type = "AbortError") =>
                /\ \A i \in 1..Len(log') : log'[i] # "commit"
                /\ head' = head]_vars

\* A move whose apply failed after the first five steps, the head untouched.
C14_Witness ==
    /\ StepFailed("apply")
    /\ result.kind = "raise"
    /\ result.type = "AbortError"
    /\ StepsOf(log) = SubSeq(MoveSteps, 1, 5)
    /\ head = InitialHead

\* The message part and the extra metadata the filter of a move gives, and
\* the metadata its caller gives.
FilteredMsg(c) ==
    IF c.msg_filter.t = "none" THEN c.self.msg ELSE ApplyFilter(c.msg_filter.v, c.self.msg)[1]

ExtraMetadata(c) ==
    IF c.msg_filter.t = "none" THEN EmptyDict ELSE ApplyFilter(c.msg_filter.v, c.self.msg)[2].v

CallerMetadata(c) == IF c.metadata.t = "none" THEN EmptyDict ELSE c.metadata.v

MoveCommitted == call.op = "move" /\ result.kind = "return" /\ result.value.t = "commit"

\* C15: the message of the commit move produces is the filtered message (the
\* original one without a msg_filter) followed by one line break and one
\* "key: value" line per key of the caller's metadata merged with the filter's
\* extra metadata, the extra value winning, the lines in increasing key order
\* and nothing after them; it is the filtered message alone when the merged
\* map is empty.
C15_MessageWithOneBlock ==
    MoveCommitted =>
        LET base == FilteredMsg(call)
            extra == ExtraMetadata(call)
            given == CallerMetadata(call)
            keys == DOMAIN given \cup DOMAIN extra
            value(k) == IF k \in DOMAIN extra THEN extra[k].v ELSE given[k].v
            msg == result.value.v.msg
        IN IF keys = {} THEN msg = base
           ELSE \E ks \in KeyOrders(keys) :
                   /\ \A i, j \in 1..Len(ks) : i < j => StrLess(ks[i], ks[j])
                   /\ msg = base \o <<NL>>
                              \o Join(<<NL>>, [i \in 1..Len(ks) |-> ks[i] \o <<":", " ">> \o value(ks[i])])

\* The filter cut the message to its first line and gave A: 3; the caller
\* gave A: 1 and X: y.
C15_Witness ==
    /\ MoveCommitted
    /\ call.msg_filter = Func("first_line")
    /\ call.metadata.t = "dict"
    /\ result.value.v.msg = <<"f", NL, "A", ":", " ", "3", NL, "X", ":", " ", "y">>

-----------------------------------------------------------------------------
(* Properties of Store *)

\* C2: on entry of a Store scope the file exists with the given content
\* (UTF-8 encoded); when the body ends normally the file is deleted; when it
\* ends with an exception the file is left in place and the same exception
\* propagates, to the enclosing scope or to the caller.
C2_StoreScope ==
    /\ call.op = "enter" =>
          /\ call.path \in DOMAIN files
          /\ files[call.path] = Utf8Encode(call.data)
    /\ (call.op = "exit" /\ call.type = NoExc) =>
          call.path \notin DOMAIN files
    /\ (call.op = "exit" /\ call.type # NoExc) =>
          /\ call.path \in DOMAIN files
          /\ files[call.path] = Utf8Encode(call.data)
          /\ scopes # <<>> => exc = call.type
          /\ scopes = <<>> => result = Raise(call.type, <<>>)

C2_Witness ==
    /\ call.op = "exit"
    /\ call.type = "KeyboardInterrupt"
    /\ scopes = <<>>
    /\ result.kind = "raise"
    /\ call.path \in DOMAIN files

-----------------------------------------------------------------------------
(* Properties of the metadata in messages *)

ExampleTrailer ==
    <<"A", ":", " ", "1", NL, "B", ":", " ", "2", NL, "A", ":", " ", "3">>

ExampleMetadata ==
    Dict([k \in {<<"A">>, <<"B">>} |->
             IF k = <<"A">> THEN PyStr(<<"3">>) ELSE PyStr(<<"2">>)])

\* C6: get_metadata maps each key to the value of its occurrence that is
\* latest in the text; for the trailer A: 1, B: 2, A: 3 it gives {A: 3, B: 2}.
C6_LastOccurrenceWins ==
    (call.op = "get_metadata" /\ result.kind = "return") =>
        /\ LET lines == splitlines(call.text) IN
           \A i \in 1..Len(lines) :
              (/\ MetadataMatches(lines[i])
               /\ \A j \in (i + 1)..Len(lines) :
                     ~(/\ MetadataMatches(lines[j])
                       /\ MetadataGroups(lines[j])[1] = MetadataGroups(lines[i])[1]))
              => /\ MetadataGroups(lines[i])[1] \in DOMAIN result.value.v
                 /\ result.value.v[MetadataGroups(lines[i])[1]]
                        = PyStr(MetadataGroups(lines[i])[2])
        /\ call.text = ExampleTrailer => result.value = ExampleMetadata

\* No line of the text reads as a key: value line.
NoMetadataLine(text) ==
    \A i \in 1..Len(splitlines(text)) : ~MetadataMatches(splitlines(text)[i])

CreatedWithMetadata ==
    /\ call.op = "create"
    /\ result.kind = "return"
    /\ Truthy(call.metadata)

\* C7 as claimed: for every message and every non-empty metadata map M, the
\* metadata of the commit that create returns equals M.
C7_MetadataRoundTrip ==
    CreatedWithMetadata => metadata_of(result.value.v) = call.metadata.v

\* C7 amended: for every message none of whose lines reads as a key: value
\* line, and every non-empty metadata map M, the metadata of the commit that
\* create returns equals M.
C7_MetadataRoundTripPlainMsg ==
    (CreatedWithMetadata /\ NoMetadataLine(call.msg))
    => metadata_of(result.value.v) = call.metadata.v

C7_Witness ==
    /\ CreatedWithMetadata
    /\ call.msg = <<"f", NL, "f">>
    /\ DOMAIN call.metadata.v = {<<"A">>, <<"X">>}
    /\ metadata_of(result.value.v) = call.metadata.v

-----------------------------------------------------------------------------
(* Properties of the classifiers *)

\* C8: over any sequence of pr() calls on the same commit, pr_for_commit is
\* called at most once in total, whatever it answered.
C8_AtMostOneLookup == lookups <= 1

\* Both Commit objects have answered pr(), one lookup was made and it found
\* no PR.
C8_Witness ==
    /\ lookups = 1
    /\ \A w \in Wrappers : wrappers[w]._notes.t = "dict"
    /\ call.op = "pr"
    /\ notes.t = "str"
    /\ WptPrKey \in DOMAIN get_metadata(notes.v)
    /\ get_metadata(notes.v)[WptPrKey] = PyStr(<<"N", "o", "n", "e">>)
    /\ result = Return(None)

\* The Commit object asked has no wpt_pr in its notes, the commit has not
\* exactly one merge_pr_ tag, and the remote lookup finds no PR.
NothingFound(w, remote) ==
    /\ WptPrKey \notin DOMAIN CommitNotes(wrappers[w], notes).v
    /\ Len(PrTags(tags)) # 1
    /\ remote = None

\* C16: when pr() finds no cached wpt_pr annotation, not exactly one
\* merge_pr_ tag and no value from the remote lookup, the value it stores
\* under wpt_pr, in the notes map and in the persisted note, is the empty
\* string, and pr() returns None.
C16_EmptyStringSentinel ==
    [][(call'.op = "pr" /\ NothingFound(call'.w, call'.remote)) =>
          /\ wrappers'[call'.w]._notes.v[WptPrKey] = PyStr(<<>>)
          /\ GitNotesRead(notes')[WptPrKey] = PyStr(<<>>)
          /\ result' = Return(None)]_vars

BackedOutCalled == call.op = "wpt_commits_backed_out"

\* A path is under the wpt path prefix.
UnderWptPath(path) == StartsWith(path, WptPath \o <<"/">>)

\* C17: every commit wpt_commits_backed_out returns is a backed-out revision
\* that changes at least one file under the wpt path prefix.
C17_OnlyWptCommitsIncluded ==
    (BackedOutCalled /\ result.kind = "return") =>
        \A i \in 1..Len(result.value.commits) :
            \E j \in 1..Len(call.parsed.backouts.nodes) :
                LET commit == GeckoRepo[call.parsed.backouts.nodes[j]] IN
                /\ commit.sha1 = result.value.commits[i]
                /\ \E p \in 1..Len(commit.paths) : UnderWptPath(commit.paths[p])

EmptyBackedOut == Return([commits |-> <<>>, bugs |-> PySet({})])

\* C9: for a message recognised as a backout whose backed-out revisions
\* cannot be parsed, wpt_commits_backed_out returns ([], set()) and raises
\* nothing.
C9_UnparsedBackoutIsEmpty ==
    (/\ BackedOutCalled
     /\ call.parsed.is_backout
     /\ call.parsed.backouts.t = "none")
    => result = EmptyBackedOut

\* C10: wpt_commits_backed_out never raises, and on a commit that is not a
\* backout it returns no commits and no bugs.
C10_ClassifierNeverRaises ==
    BackedOutCalled =>
        /\ result.kind = "return"
        /\ ~call.parsed.is_backout => result = EmptyBackedOut

-----------------------------------------------------------------------------
(* Properties of Commit equality *)

\* The identifier of what a Commit is compared with: a Commit's sha1, a
\* git.Commit's hexsha, a revision string itself.
IdentifierOf(other) ==
    IF other \in CommitObjects THEN other.sha1
    ELSE IF other \in NativeCommits THEN other.hexsha
    ELSE other.v

Compared == call.op \in {"__eq__", "__ne__"} /\ call.other # None

\* C11: a Commit equals another Commit (of any wrapper class and repository
\* handle), a native commit handle or a revision string if and only if the
\* identifiers are the same string, and __ne__ answers the negation of
\* __eq__.
C11_EqualityByIdentifier ==
    Compared =>
        LET same == call.self.sha1 = IdentifierOf(call.other) IN
        /\ call.op = "__eq__" => result = Return(PyBool(same))
        /\ call.op = "__ne__" => result = Return(PyBool(~same))
        /\ call.op = "__ne__" => result = Return(PyBool(~CommitEq(call.self, call.other)))

\* A GeckoCommit of one repository compared equal with a WptCommit of the other.
C11_Witness ==
    /\ call.op = "__eq__"
    /\ call.self.cls = "GeckoCommit"
    /\ call.other \in CommitObjects
    /\ call.other.cls = "WptCommit"
    /\ call.other.repo # call.self.repo
    /\ result = Return(PyBool(TRUE))

-----------------------------------------------------------------------------
(* Properties of the notes *)

\* The notes object of w is the only one made for the commit so far.
OnlyObject(w) ==
    /\ wrappers[w]._notes.t = "dict"
    /\ \A w2 \in Wrappers \ {w} : wrappers[w2]._notes.t = "none"

\* The map with every value as the str that "%s" makes of it.
TextForm(data) == [k \in DOMAIN data |-> PyStr(Format(data[k]))]

\* C18 as claimed: every set writes the note with notes add -f, never with
\* notes append, and after any sequence of reads and sets through one notes
\* object the persisted note, parsed again, equals the map in memory.
C18_PersistedEqualsMap ==
    /\ call.op = "set" => call.cmd = "add -f"
    /\ \A w \in Wrappers :
          OnlyObject(w) => GitNotesRead(notes) = wrappers[w]._notes.v

\* C18 amended: every set writes the note with notes add -f, never with
\* notes append, and the note it writes, parsed again, is the map in memory
\* of the object set, each value as its text (None as "None", an int as its
\* digits); so after any sequence of reads and sets through one notes object
\* the persisted note, parsed again, is that text form of the map, and is
\* the map itself when all its values are strings.
C18_PersistedIsTextOfMap ==
    /\ call.op = "set" =>
          /\ call.cmd = "add -f"
          /\ GitNotesRead(notes) = TextForm(wrappers[call.w]._notes.v)
    /\ \A w \in Wrappers :
          OnlyObject(w) =>
             /\ GitNotesRead(notes) = TextForm(wrappers[w]._notes.v)
             /\ (\A k \in DOMAIN wrappers[w]._notes.v : wrappers[w]._notes.v[k].t = "str")
                   => GitNotesRead(notes) = wrappers[w]._notes.v

\* One object has set A to None and B to a string; the note holds both.
C18_Witness ==
    /\ call.op = "set"
    /\ OnlyObject(call.w)
    /\ DOMAIN written = NoteKeys
    /\ wrappers[call.w]._notes.v[<<"A">>] = None
    /\ GitNotesRead(notes)[<<"A">>] = PyStr(<<"N", "o", "n", "e">>)
    /\ GitNotesRead(notes)[<<"B">>] = PyStr(<<"2">>)

\* C19: when the Commit objects of one commit set different keys, in any
\* interleaving, the persisted note holds every key set, with the value last
\* set for it.
C19_NoLostKey ==
    (\A k \in DOMAIN written : Cardinality(written[k].by) = 1)
    => \A k \in DOMAIN written :
          /\ k \in DOMAIN GitNotesRead(notes)
          /\ GitNotesRead(notes)[k].v = Format(written[k].value)

====
